---- MODULE Spec2Model ----
(***************************************************************************)
(* A model of the two diagram scripts docs/create-diagram.py ("simple")    *)
(* and docs/create-diagram-detailed.py ("detailed").                       *)
(*                                                                         *)
(* Each script is a straight line of drawing calls on one matplotlib Axes  *)
(* followed by one plt.savefig.  The state is the Axes' list of artists    *)
(* (in insertion order), the position in the script, and the output file.  *)
(*                                                                         *)
(* Units: coordinates, sizes and radii are in hundredths of a data unit    *)
(* (32.5 is 3250); opacities (alpha) and the label position of draw_arrow  *)
(* are in hundredths (0.6 is 60); line widths and arc curvature (rad) are  *)
(* in tenths (1.5 is 15, rad=0.1 is 1); figure sizes and pad_inches are in *)
(* tenths of an inch, so a pixel count is tenths * dpi / 10.               *)
(***************************************************************************)
EXTENDS Integers, Sequences, FiniteSets, TLC

VARIABLES
    script,     \* which program runs: "simple", "detailed" or "harness"
    run,        \* number of the current process run (1, 2, ...)
    pc,         \* index of the next statement of the script (0 before the canvas is set up)
    fig,        \* the figure/axes configuration set by plt.subplots and ax.set_*
    children,   \* the Axes' artists, in the order the calls added them
    layout,     \* "default" or "tight" (after plt.tight_layout())
    painted,    \* indices into children, in the order the last savefig painted them
    file,       \* the output file on disk: <<>> or <<its content>>
    status,     \* "start", "building", "done" or "error"
    exitcode,   \* process exit status: -1 while running, 0 success, 1 uncaught exception
    writable,   \* environment: whether the output path can be written in this run
    crop,       \* environment: <<dw, dh>>, how far the tight content box is inside the figure
    outputs,    \* history: the file contents written by the successful runs so far
    calls       \* history: the arguments of the draw_arrow and plt.Polygon calls of this run

vars == <<script, run, pc, fig, children, layout, painted, file, status,
          exitcode, writable, crop, outputs, calls>>

\* ---------------------------------------------------------------- bounds

\* number of process runs of the same script that are modelled
MaxRuns == 2
\* number of calls the harness makes before it may only save
MaxCalls == 1
\* longest vertex list the harness hands to plt.Polygon
MaxVerts == 3
\* how far (tenths of an inch per axis) the tight content box may be inside the figure
MaxCrop == 1

\* ---------------------------------------------------------------- helpers

\* n data units in hundredths
U(n) == n * 100

RECURSIVE Flatten(_)
Flatten(ss) ==
    IF Len(ss) = 0 THEN <<>>
    ELSE IF Len(ss) = 1 THEN ss[1]
    ELSE LET m == Len(ss) \div 2
         IN  Flatten(SubSeq(ss, 1, m)) \o Flatten(SubSeq(ss, m + 1, Len(ss)))

Range(s) == {s[i] : i \in DOMAIN s}

\* ---------------------------------------------------------------- artists

\* One artist of the Axes.  Every artist carries every field; a field that
\* a kind does not have is 0, "" or <<>>.
Art(kind, line, phase, layer, color, alpha, x, y, w, h, r, verts, text, lw, rad, dashed) ==
    [kind |-> kind, line |-> line, phase |-> phase, layer |-> layer,
     color |-> color, alpha |-> alpha, x |-> x, y |-> y, w |-> w, h |-> h,
     r |-> r, verts |-> verts, text |-> text, lw |-> lw, rad |-> rad,
     dashed |-> dashed]

\* FancyBboxPatch((x, y), w, h, facecolor=face, alpha=alpha)
Box(line, phase, layer, x, y, w, h, face, alpha) ==
    Art("FancyBboxPatch", line, phase, layer, face, alpha, x, y, w, h, 0, <<>>, "", 0, 0, FALSE)

\* Circle((cx, cy), r, facecolor=face, alpha=alpha)
Circ(line, phase, layer, cx, cy, r, face, alpha) ==
    Art("Circle", line, phase, layer, face, alpha, cx, cy, 0, 0, r, <<>>, "", 0, 0, FALSE)

\* (mutant of Poly) the last vertex of the list is lost
PolyDropLast(line, phase, layer, verts, face, alpha) ==
    Art("Polygon", line, phase, layer, face, alpha, 0, 0, 0, 0, 0,
        SubSeq(verts, 1, Len(verts) - 1), "", 0, 0, FALSE)

\* plt.Polygon(verts, ...) and the Polygon that ax.fill(xs, ys) creates
Poly(line, phase, layer, verts, face, alpha) ==
    Art("Polygon", line, phase, layer, face, alpha, 0, 0, 0, 0, 0, verts, "", 0, 0, FALSE)

\* the Line2D that ax.plot / ax.axhline / ax.axvline creates
Line(line, phase, layer, verts, color, alpha, lw) ==
    Art("Line2D", line, phase, layer, color, alpha, 0, 0, 0, 0, 0, verts, "", lw, 0, FALSE)

\* ax.text(x, y, text, color=color, alpha=alpha)
Txt(line, phase, layer, x, y, text, color, alpha) ==
    Art("Text", line, phase, layer, color, alpha, x, y, 0, 0, 0, <<>>, text, 0, 0, FALSE)

\* ax.annotate('', xy=end, xytext=start, arrowprops=dict(arrowstyle='->', ...))
Arrow(line, phase, start, end, color, lw, rad, dashed, alpha) ==
    Art("Annotation", line, phase, 0, color, alpha, start[1], start[2], 0, 0, 0,
        <<start, end>>, "", lw, rad, dashed)

\* A statement of a script: the call it makes, the artists the call adds and,
\* for a call of draw_arrow or plt.Polygon, the arguments it passes (else <<>>).
StmtA(call, line, arts, args) == [call |-> call, line |-> line, arts |-> arts, args |-> args]

Stmt(call, line, arts) == StmtA(call, line, arts, <<>>)

\* The arguments of one call.  label is <<>> for Python's None and <<text>>
\* for a string; at and added are filled in when the call runs: the number of
\* artists the Axes held before it and the number of artists it appended.
\* center, radius, sides and rotation are the values the vertex list of a
\* polygon was computed from (sides is 0 for a vertex list given literally).
ArrowArgs(start, end, label, label_pos, style) ==
    [fn |-> "draw_arrow", start |-> start, end |-> end, label |-> label,
     label_pos |-> label_pos, style |-> style, verts |-> <<>>,
     center |-> <<0, 0>>, radius |-> 0, sides |-> 0, rotation |-> 0,
     at |-> 0, added |-> 0]

PolygonArgs(verts) ==
    [fn |-> "Polygon", start |-> <<0, 0>>, end |-> <<0, 0>>, label |-> <<>>,
     label_pos |-> 0, style |-> "", verts |-> verts,
     center |-> <<0, 0>>, radius |-> 0, sides |-> 0, rotation |-> 0,
     at |-> 0, added |-> 0]

AddPatchS(a) == Stmt("add_patch", a.line, <<a>>)
TextS(a) == Stmt("text", a.line, <<a>>)
AnnotateS(a) == Stmt("annotate", a.line, <<a>>)
PlotS(a) == Stmt("plot", a.line, <<a>>)
FillS(a) == Stmt("fill", a.line, <<a>>)

\* hexagon = plt.Polygon(verts, facecolor=face, alpha=alpha); ax.add_patch(hexagon)
PolygonS(line, layer, verts, face, alpha) ==
    StmtA("add_patch", line, <<Poly(line, "layer", layer, verts, face, alpha)>>, <<PolygonArgs(verts)>>)

\* ---------------------------------------------------------------- geometry

\* 1000 * cos(deg) for deg a multiple of 30 (rounded to the nearest integer)
CosMilli(deg) ==
    LET d == deg % 360 IN
    CASE d = 0 -> 1000 [] d = 30 -> 866 [] d = 60 -> 500 [] d = 90 -> 0
      [] d = 120 -> -500 [] d = 150 -> -866 [] d = 180 -> -1000
      [] d = 210 -> -866 [] d = 240 -> -500 [] d = 270 -> 0
      [] d = 300 -> 500 [] d = 330 -> 866

SinMilli(deg) == CosMilli(deg + 270)

\* np.linspace(0, 2*np.pi, n), in degrees: n evenly spaced angles, both ends included
Linspace360(n) == [k \in 1..n |-> ((k - 1) * 360) \div (n - 1)]

\* np.linspace(0, 2*np.pi, n) + rotation: the closing angle is kept
PolygonAnglesKeepLast(n, rotation) == [k \in 1..n |-> Linspace360(n)[k] + rotation]

\* np.linspace(0, 2*np.pi, n)[:-1] + rotation: the last of the n angles, which
\* closes the circle, is dropped
PolygonAngles(n, rotation) == [k \in 1..(n - 1) |-> Linspace360(n)[k] + rotation]

\* np.linspace(0, 2*np.pi, 7)[:-1] + np.pi/6
hex_angles == PolygonAngles(7, 30)

\* list(zip(cx + r*np.cos(angles), cy + r*np.sin(angles)))
PolygonVerts(cx, cy, r, angles) ==
    [k \in 1..Len(angles) |-> <<cx + (r * CosMilli(angles[k])) \div 1000,
                                cy + (r * SinMilli(angles[k])) \div 1000>>]

HexVerts(cx, cy, r) == PolygonVerts(cx, cy, r, hex_angles)

\* hex_x = cx + hex_r*np.cos(hex_angles); hex_y = cy + hex_r*np.sin(hex_angles)
\* hexagon = plt.Polygon(list(zip(hex_x, hex_y)), ...); ax.add_patch(hexagon)
\* sides and rotation are what the angles were computed for
RegularPolygonS(line, layer, cx, cy, r, angles, sides, rotation, face, alpha) ==
    LET verts == PolygonVerts(cx, cy, r, angles) IN
    StmtA("add_patch", line, <<Poly(line, "layer", layer, verts, face, alpha)>>,
          <<[PolygonArgs(verts) EXCEPT !.center = <<cx, cy>>, !.radius = r,
                                       !.sides = sides, !.rotation = rotation]>>)

\* the hexagons of the two scripts: six sides, rotated by np.pi/6
HexagonS(line, layer, cx, cy, r, face, alpha) ==
    RegularPolygonS(line, layer, cx, cy, r, hex_angles, 6, 30, face, alpha)

\* ---------------------------------------------------------------- create-diagram.py

SimpleGrid ==
    Flatten([k \in 1..11 |->
        LET i == (k - 1) * 10 IN
        << Stmt("axhline", 31, <<Line(31, "grid", 0, <<<<0, U(i)>>, <<U(100), U(i)>>>>, "#1a3a52", 15, 5)>>),
           Stmt("axvline", 32, <<Line(32, "grid", 0, <<<<U(i), 0>>, <<U(i), U(130)>>>>, "#1a3a52", 15, 5)>>) >>])

file_colors == <<"#2d4a5f", "#3d5a6f", "#4d6a7f">>

SimpleLayer1 ==
    << AddPatchS(Box(38, "layer", 1, U(10), U(10), U(80), U(25), "#0d1f33", 90)) >>
    \o Flatten([k \in 1..3 |->
        LET i == k - 1
            y_pos == 18 + i * 5
            fold == << <<U(15 + i*25 + 18), U(y_pos + 10)>>,
                       <<U(15 + i*25 + 18), U(y_pos + 6)>>,
                       <<U(15 + i*25 + 13), U(y_pos + 10)>> >>
        IN << AddPatchS(Box(47, "layer", 1, U(15 + i*25), U(y_pos), U(18), U(10), file_colors[k], 85)),
              FillS(Poly(51, "layer", 1, fold, "#1a3a52", 90)),
              PlotS(Line(52, "layer", 1, fold, "#2d6a8f", 100, 8)),
              TextS(Txt(55, "layer", 1, U(24 + i*25), U(y_pos + 4), "GGUF", "#e8eaed", 80)) >>])
    \o << TextS(Txt(59, "layer", 1, U(50), U(13), "LOCAL MODEL REPOSITORY", "#2d6a8f", 90)) >>

SimpleLayer2 ==
    << AddPatchS(Box(66, "layer", 2, U(20), U(42), U(60), U(28), "#132639", 95)),
       AddPatchS(Box(71, "layer", 2, U(22), U(44), U(56), U(24), "none", 40)),
       TextS(Txt(74, "layer", 2, U(50), U(64), "ARANDU", "#f0c674", 100)) >>
    \o [k \in 1..4 |->
        AddPatchS(Box(82, "layer", 2, U(28 + (k - 1) * 12), U(48), U(8), U(8), "#1a3a52", 70))]

SimpleLayer3 ==
    << AddPatchS(Box(88, "layer", 3, U(15), U(80), U(32), U(20), "#1a2f42", 90)),
       AddPatchS(Circ(92, "layer", 3, U(31), U(90), U(6), "#0d1f33", 90)),
       AddPatchS(Circ(95, "layer", 3, U(31), U(90), 350, "none", 70)),
       AddPatchS(Circ(98, "layer", 3, U(31), U(90), 120, "#f0c674", 90)),
       TextS(Txt(100, "layer", 3, U(31), U(83), "LLAMA.CPP", "#e8eaed", 90)),
       TextS(Txt(102, "layer", 3, U(31), U(79), ":8080", "#2d6a8f", 80)) >>

SimpleLayer4 ==
    << AddPatchS(Box(109, "layer", 4, U(53), U(80), U(32), U(20), "#1a2f42", 90)),
       HexagonS(118, 4, U(69), U(90), U(5), "#0d1f33", 90),
       HexagonS(126, 4, U(69), U(90), 250, "none", 60),
       TextS(Txt(128, "layer", 4, U(69), U(83), "OPENAI PROXY", "#e8eaed", 90)),
       TextS(Txt(130, "layer", 4, U(69), U(79), ":8081", "#d4a84b", 80)) >>

SimpleLayer5 ==
    << AddPatchS(Box(137, "layer", 5, U(12), U(108), U(76), U(18), "#0d1f33", 70)),
       AddPatchS(Circ(141, "layer", 5, U(28), U(117), U(5), "#1a3a52", 85)),
       TextS(Txt(142, "layer", 5, U(28), U(117), "W", "#f8f9fa", 90)),
       TextS(Txt(144, "layer", 5, U(28), U(110), "Witsy", "#e8eaed", 80)),
       AddPatchS(Circ(149, "layer", 5, U(50), U(117), U(5), "#1a3a52", 85)),
       TextS(Txt(150, "layer", 5, U(50), U(117), "C", "#f8f9fa", 90)),
       TextS(Txt(152, "layer", 5, U(50), U(110), "Cherry AI", "#e8eaed", 80)),
       AddPatchS(Circ(157, "layer", 5, U(72), U(117), U(5), "#1a3a52", 85)),
       TextS(Txt(158, "layer", 5, U(72), U(117), "+", "#f8f9fa", 90)),
       TextS(Txt(160, "layer", 5, U(72), U(110), "Clients", "#e8eaed", 80)) >>

\* The six connectors are drawn with raw arrowprops; no connectionstyle is
\* given, so the arc is matplotlib's default arc3 with rad=0.  The dict
\* arrow_style of line 165 is never used.
SimpleArrows ==
    << AnnotateS(Arrow(169, "arrows", <<U(35), U(70)>>, <<U(31), U(80)>>, "#f0c674", 20, 0, FALSE, 80)),
       AnnotateS(Arrow(173, "arrows", <<U(65), U(70)>>, <<U(69), U(80)>>, "#d4a84b", 20, 0, FALSE, 80)),
       AnnotateS(Arrow(177, "arrows", <<U(69), U(100)>>, <<U(28), U(103)>>, "#e8eaed", 15, 0, FALSE, 60)),
       AnnotateS(Arrow(179, "arrows", <<U(69), U(100)>>, <<U(50), U(103)>>, "#e8eaed", 15, 0, FALSE, 60)),
       AnnotateS(Arrow(181, "arrows", <<U(69), U(100)>>, <<U(72), U(103)>>, "#e8eaed", 15, 0, FALSE, 60)),
       AnnotateS(Arrow(185, "arrows", <<U(50), U(35)>>, <<U(50), U(42)>>, "#2d6a8f", 15, 0, FALSE, 70)) >>

dot_positions == << <<40, 55>>, <<60, 58>>, <<45, 85>>, <<75, 95>>, <<35, 105>> >>

\* alpha=0.4 + i*0.2
DotAlphaSteep(i) == 40 + i * 20

\* alpha=0.4 + i*0.1, i the index of the dot from 0
DotAlpha(i) == 40 + i * 10

SimpleDecor ==
    [k \in 1..5 |->
        AddPatchS(Circ(193, "decor", 0, U(dot_positions[k][1]), U(dot_positions[k][2]), 80,
                       "#f0c674", DotAlpha(k - 1)))]
    \o << PlotS(Line(196, "decor", 0, << <<U(85), U(117)>>, <<U(95), U(117)>> >>, "#e8eaed", 50, 8)),
          PlotS(Line(197, "decor", 0, << <<U(90), U(112)>>, <<U(90), U(122)>> >>, "#e8eaed", 50, 8)),
          PlotS(Line(202, "decor", 0, << <<U(5), U(125)>>, <<U(5 + 3), U(125)>> >>, "#d4a84b", 60, 15)),
          PlotS(Line(203, "decor", 0, << <<U(5), U(125 - 3)>>, <<U(5), U(125)>> >>, "#d4a84b", 60, 15)),
          PlotS(Line(205, "decor", 0, << <<U(95 - 3), U(125)>>, <<U(95), U(125)>> >>, "#d4a84b", 60, 15)),
          PlotS(Line(206, "decor", 0, << <<U(95), U(125 - 3)>>, <<U(95), U(125)>> >>, "#d4a84b", 60, 15)) >>

\* (the bullet characters of the legend text are written as *)
SimpleTitles ==
    << TextS(Txt(209, "title", 0, U(50), U(127), "ARANDU ARCHITECTURE", "#f8f9fa", 100)),
       TextS(Txt(211, "title", 0, U(50), U(124), "Local AI Infrastructure", "#2d6a8f", 80)),
       TextS(Txt(216, "legend", 0, U(50), U(4),
                 "OpenAI-Compatible API * Concurrent Client Support * Sequential Model Processing",
                 "#e8eaed", 60)),
       Stmt("tight_layout", 219, <<>>) >>

\* create-diagram.py with the grid loop moved behind the layers
SimpleProgramGridLast ==
    SimpleLayer1 \o SimpleLayer2 \o SimpleLayer3 \o SimpleLayer4
    \o SimpleLayer5 \o SimpleGrid \o SimpleArrows \o SimpleDecor \o SimpleTitles

SimpleProgram ==
    SimpleGrid \o SimpleLayer1 \o SimpleLayer2 \o SimpleLayer3 \o SimpleLayer4
    \o SimpleLayer5 \o SimpleArrows \o SimpleDecor \o SimpleTitles

\* ---------------------------------------------------------------- create-diagram-detailed.py

color_storage == "#0f2b3d"
color_transport == "#2d8cb3"
color_processing == "#d4a85c"
color_error == "#e07a5f"
color_data == "#f8f9fa"
color_metadata == "#6b7b8c"
color_background == "#0a1628"

\* (mutant of ArrowPreset) the thick preset keeps the arc of the simple one
ArrowPresetThickCurved(style) ==
    CASE style = "simple" -> [lw |-> 15, rad |-> 1, dashed |-> FALSE, alpha |-> 100]
      [] style = "thick"  -> [lw |-> 25, rad |-> 1, dashed |-> FALSE, alpha |-> 100]
      [] style = "dashed" -> [lw |-> 10, rad |-> 1, dashed |-> TRUE,  alpha |-> 60]

\* The three presets of draw_arrow: the arrowprops each branch passes.
\* alpha is 100 where the branch gives none.
ArrowPreset(style) ==
    CASE style = "simple" -> [lw |-> 15, rad |-> 1, dashed |-> FALSE, alpha |-> 100]
      [] style = "thick"  -> [lw |-> 25, rad |-> 0, dashed |-> FALSE, alpha |-> 100]
      [] style = "dashed" -> [lw |-> 10, rad |-> 1, dashed |-> TRUE,  alpha |-> 60]

PresetNames == {"simple", "thick", "dashed"}

\* Python truth of the label argument: None (<<>>) and '' are false
Truthy(label) == label # <<>> /\ label[1] # ""

\* (mutant of MidPoint) interpolates from the end point
MidPointFromEnd(s, e, label_pos) == e + ((s - e) * label_pos) \div 100

\* mid = start + (end - start) * label_pos on one axis (label_pos in hundredths)
MidPoint(s, e, label_pos) == s + ((e - s) * label_pos) \div 100

\* an if/elif chain that ends in an else branch drawing the simple connector
ArrowConnectorElseSimple(start, end, color, style) ==
    LET st == IF style \in PresetNames THEN style ELSE "simple" IN
    << Arrow((CASE st = "simple" -> 322 [] st = "thick" -> 326 [] st = "dashed" -> 330),
             "arrows", start, end, color, ArrowPreset(st).lw, ArrowPreset(st).rad,
             ArrowPreset(st).dashed, ArrowPreset(st).alpha) >>

\* the annotate call of the branch that matches style, if any
ArrowConnector(start, end, color, style) ==
    IF style \in PresetNames
    THEN << Arrow((CASE style = "simple" -> 322 [] style = "thick" -> 326 [] style = "dashed" -> 330),
                  "arrows", start, end, color, ArrowPreset(style).lw, ArrowPreset(style).rad,
                  ArrowPreset(style).dashed, ArrowPreset(style).alpha) >>
    ELSE <<>>

\* the ax.text call under "if label:"
ArrowLabel(start, end, color, label, label_pos) ==
    IF Truthy(label)
    THEN << Txt(338, "arrows", 0, MidPoint(start[1], end[1], label_pos),
                MidPoint(start[2], end[2], label_pos) + 150, label[1], color, 80) >>
    ELSE <<>>

\* def draw_arrow(ax, start, end, color, label=None, label_pos=0.5, style='simple'):
\* the artists one call adds to the Axes, in order
draw_arrow(start, end, color, label, label_pos, style) ==
    ArrowConnector(start, end, color, style) \o ArrowLabel(start, end, color, label, label_pos)

DrawArrowS(line, start, end, color, label, label_pos, style) ==
    StmtA("draw_arrow", line, draw_arrow(start, end, color, label, label_pos, style),
          <<ArrowArgs(start, end, label, label_pos, style)>>)

DetailedGrid ==
    [k \in 1..21 |->
        Stmt("axvline", 35, <<Line(35, "grid", 0, <<<<U((k-1)*10), 0>>, <<U((k-1)*10), U(120)>>>>, "#1a3a52", 10, 3)>>)]
    \o [k \in 1..13 |->
        Stmt("axhline", 37, <<Line(37, "grid", 0, <<<<0, U((k-1)*10)>>, <<U(200), U((k-1)*10)>>>>, "#1a3a52", 10, 3)>>)]

models == << <<"llama-3.1-8b-Q4_K_M.gguf", "8.5 GB">>,
             <<"mistral-7b-v0.3-Q5_K_M.gguf", "7.2 GB">>,
             <<"phi-3-mini-Q4_0.gguf", "2.1 GB">> >>

DetailedLayer1 ==
    LET storage_y == 5
        storage_height == 20
    IN  << AddPatchS(Box(50, "layer", 1, U(5), U(storage_y), U(55), U(storage_height), color_storage, 95)),
           TextS(Txt(52, "layer", 1, 3250, U(storage_y + storage_height - 2), "LOCAL MODEL STORAGE",
                     color_transport, 90)) >>
        \o Flatten([k \in 1..3 |->
            LET y_pos == storage_y + 13 - (k - 1) * 5
                fold == << <<U(55), U(y_pos + 4)>>, <<U(55), U(y_pos + 1)>>, <<U(50), U(y_pos + 4)>> >>
            IN << AddPatchS(Box(69, "layer", 1, U(10), U(y_pos), U(45), U(4), "#1a3f54", 90)),
                  FillS(Poly(73, "layer", 1, fold, "#0d2535", 90)),
                  PlotS(Line(74, "layer", 1, fold, color_transport, 100, 8)),
                  TextS(Txt(76, "layer", 1, U(12), U(y_pos + 2), models[k][1], color_data, 85)),
                  TextS(Txt(79, "layer", 1, U(53), U(y_pos + 2), models[k][2], color_metadata, 70)) >>])
        \o << TextS(Txt(83, "layer", 1, 3250, U(storage_y + 2), "3 models * 17.8 GB total",
                        color_metadata, 80)) >>

DetailedLayer2 ==
    LET arandu_x == 70
        arandu_y == 35
        arandu_w == 50
        arandu_h == 50
        status_y == arandu_y + 22
        status_calls == <<"Proxy: ON", "Server: RUNNING">>
    IN  << AddPatchS(Box(99, "layer", 2, U(arandu_x), U(arandu_y), U(arandu_w), U(arandu_h), "#132639", 98)),
           AddPatchS(Box(106, "layer", 2, U(arandu_x + 2), U(arandu_y + 2), U(arandu_w - 4), U(arandu_h - 4),
                         "none", 30)),
           TextS(Txt(108, "layer", 2, U(arandu_x) + U(arandu_w) \div 2, U(arandu_y + arandu_h - 4),
                     "ARANDU DESKTOP", color_processing, 100)) >>
        \o Flatten([row \in 1..3 |-> [col \in 1..4 |->
               AddPatchS(Box(120, "layer", 2, U(arandu_x + 5 + (col - 1) * 10),
                             U(arandu_y + 30 - (row - 1) * 10), U(7), U(7), "#1a3f54", 70))]])
        \o << AddPatchS(Box(127, "layer", 2, U(arandu_x + 3), U(arandu_y + 5), U(20), U(12), "#0d1f33", 95)),
              TextS(Txt(128, "layer", 2, U(arandu_x + 13), U(arandu_y + 14), "NETWORK SERVE", color_processing, 100)),
              TextS(Txt(130, "layer", 2, U(arandu_x + 13), U(arandu_y + 10), "Status: ACTIVE", color_transport, 100)),
              TextS(Txt(132, "layer", 2, U(arandu_x + 13), U(arandu_y + 7), "10.0.0.47:8081", color_data, 100)) >>
        \o Flatten([k \in 1..2 |->
            << AddPatchS(Circ(141, "layer", 2, U(arandu_x + arandu_w - 8), U(status_y - (k - 1) * 4), 120,
                              "#4caf50", 90)),
               TextS(Txt(142, "layer", 2, U(arandu_x + arandu_w - 5), U(status_y - (k - 1) * 4),
                         status_calls[k], color_data, 80)) >>])

\* LAYER 3A (llama.cpp server) and LAYER 3B (OpenAI proxy)
DetailedLayer3 ==
    LET llama_x == 130
        llama_y == 25
        llama_w == 35
        llama_h == 40
        server_cx == U(llama_x) + U(llama_w) \div 2
        server_cy == U(llama_y + 25)
        proxy_x == 170
        proxy_y == 25
        proxy_w == 28
        proxy_h == 40
        hex_cx == U(proxy_x) + U(proxy_w) \div 2
        hex_cy == U(proxy_y + 25)
        endpoints == <<"/v1/models", "/v1/chat/completions", "/health">>
    IN  << AddPatchS(Box(158, "layer", 3, U(llama_x), U(llama_y), U(llama_w), U(llama_h), "#0f2840", 95)),
           TextS(Txt(160, "layer", 3, server_cx, U(llama_y + llama_h - 3), "LLAMA.CPP SERVER", color_transport, 90)),
           AddPatchS(Circ(170, "layer", 3, server_cx, server_cy, U(10), "none", 60)),
           AddPatchS(Circ(174, "layer", 3, server_cx, server_cy, U(6), "none", 80)),
           AddPatchS(Circ(177, "layer", 3, server_cx, server_cy, U(3), color_processing, 95)),
           TextS(Txt(180, "layer", 3, server_cx, U(llama_y + 8), "PORT 8080", color_transport, 100)),
           TextS(Txt(183, "layer", 3, server_cx, U(llama_y + 5), "127.0.0.1", color_metadata, 100)),
           AddPatchS(Box(191, "layer", 3, U(llama_x + 3), U(llama_y + 12), U(llama_w - 6), U(6), "#0d1f33", 90)),
           TextS(Txt(192, "layer", 3, server_cx, U(llama_y + 15), "Active: llama-3.1-8b-Q4_K_M", color_data, 90)),
           AddPatchS(Box(208, "layer", 3, U(proxy_x), U(proxy_y), U(proxy_w), U(proxy_h), "#0f2840", 95)),
           TextS(Txt(210, "layer", 3, hex_cx, U(proxy_y + proxy_h - 3), "OPENAI PROXY", color_processing, 90)),
           HexagonS(223, 3, hex_cx, hex_cy, U(8), "#0d1f33", 95),
           HexagonS(230, 3, hex_cx, hex_cy, U(4), "none", 60),
           TextS(Txt(233, "layer", 3, hex_cx, U(proxy_y + 8), "PORT 8081", color_processing, 100)),
           TextS(Txt(236, "layer", 3, hex_cx, U(proxy_y + 5), "0.0.0.0", color_metadata, 100)) >>
        \o [k \in 1..3 |->
               TextS(Txt(243, "layer", 3, U(proxy_x + 2), U(proxy_y + 14 - (k - 1) * 3), endpoints[k],
                         color_data, 70))]

DetailedLayer4 ==
    LET clients_x == 130
        clients_y == 75
        clients_w == 68
        clients_h == 40
    IN  << AddPatchS(Box(259, "layer", 4, U(clients_x), U(clients_y), U(clients_w), U(clients_h), "#0d1f33", 80)),
           TextS(Txt(261, "layer", 4, U(clients_x) + U(clients_w) \div 2, U(clients_y + clients_h - 3),
                     "EXTERNAL CLIENTS", color_data, 90)),
           AddPatchS(Box(270, "layer", 4, U(clients_x + 5), U(clients_y + 5), U(18), U(22), "#1a3f54", 90)),
           AddPatchS(Circ(274, "layer", 4, U(clients_x + 14), U(clients_y + 20), U(5), "#2d5a7b", 100)),
           TextS(Txt(275, "layer", 4, U(clients_x + 14), U(clients_y + 20), "W", color_data, 100)),
           TextS(Txt(277, "layer", 4, U(clients_x + 14), U(clients_y + 12), "Witsy", color_data, 100)),
           TextS(Txt(279, "layer", 4, U(clients_x + 14), U(clients_y + 8), "Port: 8091", color_metadata, 100)),
           TextS(Txt(281, "layer", 4, U(clients_x + 14), U(clients_y + 5), "/v1/", color_transport, 100)),
           AddPatchS(Box(289, "layer", 4, U(clients_x + 28), U(clients_y + 5), U(18), U(22), "#1a3f54", 90)),
           AddPatchS(Circ(292, "layer", 4, U(clients_x + 37), U(clients_y + 20), U(5), "#2d5a7b", 100)),
           TextS(Txt(293, "layer", 4, U(clients_x + 37), U(clients_y + 20), "C", color_data, 100)),
           TextS(Txt(295, "layer", 4, U(clients_x + 37), U(clients_y + 12), "Cherry AI", color_data, 100)),
           TextS(Txt(297, "layer", 4, U(clients_x + 37), U(clients_y + 8), "Port: 8091", color_metadata, 100)),
           TextS(Txt(299, "layer", 4, U(clients_x + 37), U(clients_y + 5), "No /v1", color_transport, 100)),
           AddPatchS(Box(307, "layer", 4, U(clients_x + 51), U(clients_y + 5), U(12), U(22), "#1a3f54", 70)),
           TextS(Txt(308, "layer", 4, U(clients_x + 57), U(clients_y + 20), "+", color_data, 100)),
           TextS(Txt(310, "layer", 4, U(clients_x + 57), U(clients_y + 12), "More", color_data, 80)),
           TextS(Txt(312, "layer", 4, U(clients_x + 57), U(clients_y + 8), "Clients", color_metadata, 70)) >>

\* the eight draw_arrow calls (label_pos 50 and style "simple" where the call gives none)
DetailedArrows ==
    << DrawArrowS(342, <<U(60), U(20)>>, <<U(70), U(42)>>, color_transport, <<"Load Model">>, 50, "simple"),
       DrawArrowS(345, <<U(120), U(55)>>, <<U(130), U(50)>>, color_processing, <<"Launch :8080">>, 50, "simple"),
       DrawArrowS(348, <<U(120), U(50)>>, <<U(170), U(50)>>, color_processing, <<"Start :8081">>, 50, "simple"),
       DrawArrowS(351, <<U(170), U(35)>>, <<U(165), U(35)>>, color_transport, <<"HTTP">>, 50, "thick"),
       DrawArrowS(352, <<U(165), U(33)>>, <<U(170), U(33)>>, color_transport, <<"JSON">>, 50, "thick"),
       DrawArrowS(356, <<U(170), U(60)>>, <<U(145), U(77)>>, color_data, <<"SSE/HTTP">>, 30, "simple"),
       DrawArrowS(358, <<U(170), U(58)>>, <<U(165), U(77)>>, color_data, <<"HTTP">>, 30, "simple"),
       DrawArrowS(360, <<U(170), U(56)>>, <<U(180), U(77)>>, color_data, <<"REST">>, 30, "simple") >>

packet_positions == << <<65, 30, color_data>>, <<110, 52, color_processing>>,
                       <<148, 52, color_processing>>, <<155, 34, color_transport>>,
                       <<158, 68, color_data>> >>

DetailedPackets ==
    [k \in 1..5 |->
        AddPatchS(Circ(375, "decor", 0, U(packet_positions[k][1]), U(packet_positions[k][2]), U(1),
                       packet_positions[k][3], 60))]

legend_items == << <<color_transport, "HTTP/TCP", "Transport">>,
                   <<color_processing, "Processing", "Server">>,
                   <<color_data, "OpenAI API", "Protocol">>,
                   <<color_error, "Error/Warning", "State">> >>

details == << "* Concurrent: Multiple clients OK", "* Sequential: One request at a time",
              "* Timeout: 5min request, 10s connect", "* Format: OpenAI-compatible JSON",
              "* Streaming: SSE for real-time" >>

DetailedLegend ==
    LET legend_x == 5
        legend_y == 85
        tech_x == 50
        tech_y == 85
    IN  << AddPatchS(Box(388, "legend", 0, U(legend_x), U(legend_y), U(40), U(30), "#0d1f33", 90)),
           TextS(Txt(390, "legend", 0, U(legend_x + 20), U(legend_y + 27), "DATA FLOW", color_data, 100)) >>
        \o Flatten([k \in 1..4 |->
            LET y == legend_y + 22 - (k - 1) * 5 IN
            << AddPatchS(Circ(404, "legend", 0, U(legend_x + 3), U(y), 120, legend_items[k][1], 90)),
               TextS(Txt(405, "legend", 0, U(legend_x + 6), U(y), legend_items[k][2], color_data, 100)),
               TextS(Txt(407, "legend", 0, U(legend_x + 25), U(y), legend_items[k][3], color_metadata, 100)) >>])
        \o << AddPatchS(Box(417, "legend", 0, U(tech_x), U(tech_y), U(45), U(30), "#0d1f33", 90)),
              TextS(Txt(419, "legend", 0, U(tech_x) + 2250, U(tech_y + 27), "TECHNICAL DETAILS", color_data, 100)) >>
        \o [k \in 1..5 |->
               TextS(Txt(433, "legend", 0, U(tech_x + 2), U(tech_y + 23 - (k - 1) * 4), details[k],
                         color_data, 85))]

DetailedTitles ==
    LET corner_size == 4 IN
    << TextS(Txt(441, "title", 0, U(100), U(117), "ARANDU ARCHITECTURE", color_data, 100)),
       TextS(Txt(444, "title", 0, U(100), U(113), "Local AI Infrastructure with OpenAI-Compatible API",
                 color_transport, 90)),
       TextS(Txt(450, "title", 0, U(100), U(2),
                 "OpenAI-Compatible API * Concurrent Client Support * Sequential Model Processing * Port 8080 (llama.cpp) * Port 8081 (OpenAI Proxy) * Witsy/Cherry AI Compatible",
                 color_metadata, 70)),
       PlotS(Line(456, "title", 0, << <<U(2), U(118)>>, <<U(2 + corner_size), U(118)>> >>, color_processing, 60, 20)),
       PlotS(Line(457, "title", 0, << <<U(2), U(118 - corner_size)>>, <<U(2), U(118)>> >>, color_processing, 60, 20)),
       PlotS(Line(459, "title", 0, << <<U(198 - corner_size), U(118)>>, <<U(198), U(118)>> >>, color_processing, 60, 20)),
       PlotS(Line(460, "title", 0, << <<U(198), U(118 - corner_size)>>, <<U(198), U(118)>> >>, color_processing, 60, 20)) >>

\* (mutant of DetailedProgram) the connectors are drawn before the layers
DetailedProgramArrowsFirst ==
    DetailedGrid \o DetailedArrows \o DetailedLayer1 \o DetailedLayer2 \o DetailedLayer3
    \o DetailedLayer4 \o DetailedPackets \o DetailedLegend \o DetailedTitles

DetailedProgram ==
    DetailedGrid \o DetailedLayer1 \o DetailedLayer2 \o DetailedLayer3 \o DetailedLayer4
    \o DetailedArrows \o DetailedPackets \o DetailedLegend \o DetailedTitles

Program(s) == IF s = "simple" THEN SimpleProgram ELSE IF s = "detailed" THEN DetailedProgram ELSE <<>>

\* ---------------------------------------------------------------- canvas and export

\* dpi=300 of both plt.savefig calls
SaveDpi == 300

\* fig, ax = plt.subplots(figsize=...); ax.set_xlim; ax.set_ylim; ax.axis('off');
\* fig.patch.set_facecolor.  The harness draws on the canvas of the detailed script.
FigOf(s) ==
    IF s = "simple"
    THEN [figw |-> 110, figh |-> 140, xlim |-> U(100), ylim |-> U(130), axison |-> FALSE,
          facecolor |-> "#0a1628"]
    ELSE [figw |-> 200, figh |-> 120, xlim |-> U(200), ylim |-> U(120), axison |-> FALSE,
          facecolor |-> "#0a1628"]

NoFig == [figw |-> 0, figh |-> 0, xlim |-> 0, ylim |-> 0, axison |-> TRUE, facecolor |-> ""]

\* pad_inches of the savefig call, in tenths of an inch
PadInches(s) == IF s = "simple" THEN 3 ELSE 5

SavePath(s) == IF s = "simple" THEN "arandu-architecture.png" ELSE "arandu-architecture-detailed.png"

SaveFacecolor(s) == IF s = "simple" THEN "#0a1628" ELSE color_background

\* default zorder of an artist: patches 1, lines 2, texts and annotations 3
ZOrder(a) ==
    CASE a.kind \in {"FancyBboxPatch", "Circle", "Polygon"} -> 1
      [] a.kind = "Line2D" -> 2
      [] a.kind \in {"Text", "Annotation"} -> 3

\* (mutant of PaintOrder) the zorder classes drawn top class first
PaintOrderTopFirst(ch) ==
    LET idx == [i \in 1..Len(ch) |-> i]
        AtZ(z) == SelectSeq(idx, LAMBDA i : ZOrder(ch[i]) = z)
    IN  AtZ(3) \o AtZ(2) \o AtZ(1)

\* (mutant of PaintOrder) artists whose text is empty are not drawn
PaintOrderSkipEmptyText(ch) ==
    LET idx == [i \in 1..Len(ch) |-> i]
        AtZ(z) == SelectSeq(idx, LAMBDA i : ZOrder(ch[i]) = z /\ ~(z = 3 /\ ch[i].text = ""))
    IN  AtZ(1) \o AtZ(2) \o AtZ(3)

\* The order in which the Axes draws its artists when the figure is saved:
\* sorted by zorder, artists of equal zorder in the order they were added.
\* The result is a sequence of indices into ch.
PaintOrder(ch) ==
    LET idx == [i \in 1..Len(ch) |-> i]
        AtZ(z) == SelectSeq(idx, LAMBDA i : ZOrder(ch[i]) = z)
    IN  AtZ(1) \o AtZ(2) \o AtZ(3)

\* bbox_inches='tight': the box of the drawn content, in tenths of an inch
ContentBox(f, c) == [w |-> f.figw - c[1], h |-> f.figh - c[2]]

\* (mutant of PixelSize) the padding is added in pixels, after scaling
PixelSizePadUnscaled(inches, pad, dpi) == (inches * dpi) \div 10 + 2 * pad

\* one axis of the saved image in pixels: the content box padded by
\* pad_inches on both sides, at dpi dots per inch
PixelSize(inches, pad, dpi) == ((inches + 2 * pad) * dpi) \div 10

\* what plt.savefig(path, dpi=300, bbox_inches='tight', facecolor=..., pad_inches=...) writes
\* (pixels: the artists as they were painted, bottom first)
Output(s, f, c, ch) ==
    LET order == PaintOrder(ch) IN
    [path |-> SavePath(s),
     w |-> PixelSize(ContentBox(f, c).w, PadInches(s), SaveDpi),
     h |-> PixelSize(ContentBox(f, c).h, PadInches(s), SaveDpi),
     facecolor |-> SaveFacecolor(s),
     pixels |-> [k \in 1..Len(order) |-> ch[order[k]]]]

\* ---------------------------------------------------------------- the run of a script

Scripts == {"simple", "detailed"}

Crops == {<<dw, dh>> : dw \in 0..MaxCrop, dh \in 0..MaxCrop}

Init ==
    /\ script \in Scripts
    /\ run = 1
    /\ pc = 0
    /\ fig = NoFig
    /\ children = <<>>
    /\ layout = "default"
    /\ painted = <<>>
    /\ file = <<>>
    /\ status = "start"
    /\ exitcode = -1
    /\ writable \in BOOLEAN
    /\ crop \in Crops
    /\ outputs = <<>>
    /\ calls = <<>>

\* (mutant of Configure) the drawing calls go to the Axes of the earlier run
ConfigureSameAxes ==
    /\ status = "start"
    /\ fig' = FigOf(script)
    /\ pc' = 1
    /\ status' = "building"
    /\ UNCHANGED <<script, run, children, layout, painted, calls, file, exitcode, writable, crop, outputs>>

\* lines 9-14 (simple: 9-13): a fresh figure with one empty Axes
Configure ==
    /\ status = "start"
    /\ fig' = FigOf(script)
    /\ children' = <<>>
    /\ layout' = "default"
    /\ painted' = <<>>
    /\ calls' = <<>>
    /\ pc' = 1
    /\ status' = "building"
    /\ UNCHANGED <<script, run, file, exitcode, writable, crop, outputs>>

AtCall(call) ==
    /\ status = "building"
    /\ script \in Scripts
    /\ pc \in 1..Len(Program(script))
    /\ Program(script)[pc].call = call

\* a drawing statement whose artists replace those the Axes held
DrawReplacing(stmt) ==
    /\ children' = stmt.arts
    /\ calls' = calls \o [k \in 1..Len(stmt.args) |-> [stmt.args[k] EXCEPT !.at = 0, !.added = Len(stmt.arts)]]
    /\ pc' = pc + 1
    /\ UNCHANGED <<script, run, fig, layout, painted, file, status, exitcode, writable, crop, outputs>>

\* the effect of a drawing statement: its artists are appended to the Axes
Draw(stmt) ==
    /\ children' = children \o stmt.arts
    /\ calls' = calls \o [k \in 1..Len(stmt.args) |-> [stmt.args[k] EXCEPT !.at = Len(children), !.added = Len(stmt.arts)]]
    /\ pc' = pc + 1
    /\ UNCHANGED <<script, run, fig, layout, painted, file, status, exitcode, writable, crop, outputs>>

AxHLine == AtCall("axhline") /\ Draw(Program(script)[pc])

AxVLine == AtCall("axvline") /\ Draw(Program(script)[pc])

AddPatch == AtCall("add_patch") /\ Draw(Program(script)[pc])

Fill == AtCall("fill") /\ Draw(Program(script)[pc])

Plot == AtCall("plot") /\ Draw(Program(script)[pc])

Text == AtCall("text") /\ Draw(Program(script)[pc])

Annotate == AtCall("annotate") /\ Draw(Program(script)[pc])

DrawArrow == AtCall("draw_arrow") /\ Draw(Program(script)[pc])

\* plt.tight_layout(): moves the Axes inside the figure; adds no artist
TightLayout ==
    /\ AtCall("tight_layout")
    /\ layout' = "tight"
    /\ pc' = pc + 1
    /\ UNCHANGED <<script, run, fig, children, painted, file, status, exitcode, writable, crop,
                   outputs, calls>>

\* (mutant of AtSavefig) plt.savefig may run before the last drawing call
AtSavefigEarly ==
    /\ status = "building"
    /\ \/ script \in Scripts /\ pc \in 2..(Len(Program(script)) + 1)
       \/ script = "harness"

\* the script has reached its plt.savefig statement
AtSavefig ==
    /\ status = "building"
    /\ \/ script \in Scripts /\ pc = Len(Program(script)) + 1
       \/ script = "harness"

\* (mutant of Savefig) the OSError of an unwritable path is caught and ignored
SavefigSwallowsError ==
    /\ AtSavefig
    /\ painted' = PaintOrder(children)
    /\ IF writable
       THEN /\ file' = << Output(script, fig, crop, children) >>
            /\ outputs' = Append(outputs, Output(script, fig, crop, children))
       ELSE UNCHANGED <<file, outputs>>
    /\ status' = "done"
    /\ exitcode' = 0
    /\ UNCHANGED <<script, run, pc, fig, children, layout, writable, crop, calls>>

\* plt.savefig(...), the last statement: the figure is drawn, then the file is
\* written.  When the path cannot be written the OSError is not caught: the
\* process ends with a traceback and exit status 1.
Savefig ==
    /\ AtSavefig
    /\ painted' = PaintOrder(children)
    /\ IF writable
       THEN /\ file' = << Output(script, fig, crop, children) >>
            /\ outputs' = Append(outputs, Output(script, fig, crop, children))
            /\ status' = "done"
            /\ exitcode' = 0
       ELSE /\ status' = "error"
            /\ exitcode' = 1
            /\ UNCHANGED <<file, outputs>>
    /\ UNCHANGED <<script, run, pc, fig, children, layout, writable, crop, calls>>

\* The script is started again as a new process; what is on disk stays.
NewRun ==
    /\ status \in {"done", "error"}
    /\ script \in Scripts
    /\ run < MaxRuns
    /\ run' = run + 1
    /\ status' = "start"
    /\ pc' = 0
    /\ fig' = NoFig
    /\ exitcode' = -1
    /\ writable' \in BOOLEAN
    /\ UNCHANGED <<script, children, layout, painted, file, crop, outputs, calls>>

Next ==
    \/ Configure
    \/ AxHLine
    \/ AxVLine
    \/ AddPatch
    \/ Fill
    \/ Plot
    \/ Text
    \/ Annotate
    \/ DrawArrow
    \/ TightLayout
    \/ Savefig
    \/ NewRun

Spec == Init /\ [][Next]_vars

\* ---------------------------------------------------------------- the helpers on arbitrary arguments

HPoints == { <<0, 0>>, <<U(10), U(10)>>, <<U(7), 0 - U(3)>> }

HLabels == { <<>>, <<"">>, <<"HTTP">> }

HLabelPos == {0, 30, 50, 100}

HStyles == PresetNames \cup {"dotted"}

\* the vertex lists handed to plt.Polygon (one point at least)
VertexLists == UNION { [1..n -> HPoints] : n \in 1..MaxVerts }

\* centres, radii, numbers of sides and rotations (degrees) the hexagon
\* computation is exercised on; the angles stay multiples of 30 degrees
HCenters == {<<0, 0>>, <<U(69), U(90)>>}
HRadii == {U(10), 250}
HSides == {3, 4, 6, 12}
HRotations == {0, 30}

InitH ==
    /\ script = "harness"
    /\ run = 1
    /\ pc = 0
    /\ fig = NoFig
    /\ children = <<>>
    /\ layout = "default"
    /\ painted = <<>>
    /\ file = <<>>
    /\ status = "start"
    /\ exitcode = -1
    /\ writable \in BOOLEAN
    /\ crop = <<0, 0>>
    /\ outputs = <<>>
    /\ calls = <<>>

HCanCall == status = "building" /\ script = "harness" /\ pc <= MaxCalls

\* draw_arrow(ax, start, end, color, label, label_pos, style) on any arguments
HDrawArrow ==
    /\ HCanCall
    /\ \E start \in HPoints, end \in HPoints, label \in HLabels, label_pos \in HLabelPos,
          style \in HStyles :
          Draw(DrawArrowS(342, start, end, color_transport, label, label_pos, style))

\* hexagon = plt.Polygon(list(zip(xs, ys)), ...); ax.add_patch(hexagon) on any vertex list
HPolygon ==
    /\ HCanCall
    /\ \E verts \in VertexLists :
          Draw(PolygonS(223, 3, verts, "#0d1f33", 95))

\* the hexagon computation of the scripts with its literals (7 angles of
\* np.linspace, np.pi/6, hex_r, the centre) as arguments
HRegularPolygon ==
    /\ HCanCall
    /\ \E center \in HCenters, r \in HRadii, sides \in HSides, rotation \in HRotations :
          Draw(RegularPolygonS(223, 3, center[1], center[2], r,
                               PolygonAngles(sides + 1, rotation), sides, rotation,
                               "#0d1f33", 95))

NextH ==
    \/ Configure
    \/ HDrawArrow
    \/ HPolygon
    \/ HRegularPolygon
    \/ Savefig

HarnessSpec == InitH /\ [][NextH]_vars

\* the two scripts and the helpers on arbitrary arguments together
InitAll == Init \/ InitH

NextAll == Next \/ NextH

AllSpec == InitAll /\ [][NextAll]_vars

\* ---------------------------------------------------------------- properties

\* the position of v in the sequence seq
PosIn(seq, v) == CHOOSE k \in DOMAIN seq : seq[k] = v

\* plt.savefig has run in this run
Saved == status \in {"done", "error"}

\* all the artists a script adds, in the order its statements add them
SceneArts(s) == Flatten([k \in 1..Len(Program(s)) |-> Program(s)[k].arts])

IsPanel(a) == a.kind = "FancyBboxPatch"

IsLabel(a) == a.kind = "Text"

\* the anchor of label t lies inside panel p
Overlaps(p, t) == /\ p.x <= t.x /\ t.x <= p.x + p.w
                  /\ p.y <= t.y /\ t.y <= p.y + p.h

ArrowLabelArtists == {i \in 1..Len(children) : children[i].kind = "Text" /\ children[i].line = 338}

ArrowCalls == {k \in 1..Len(calls) : calls[k].fn = "draw_arrow"}

PhaseRank(a) ==
    CASE a.phase \in {"grid", "layer"} -> 1
      [] a.phase = "arrows" -> 2
      [] a.phase \in {"decor", "legend", "title"} -> 3

C5_LabelAtInterpolatedPoint ==
    \A k \in ArrowCalls :
        LET c == calls[k] IN
        (c.label # <<>> /\ c.label # <<"">>) =>
            LET t == children[c.at + (IF c.style \in {"simple", "thick", "dashed"} THEN 2 ELSE 1)]
                mx == t.x
                my == t.y - 150
            IN  /\ t.kind = "Text" /\ t.text = c.label[1]
                /\ 100 * (mx - c.start[1]) = (c.end[1] - c.start[1]) * c.label_pos
                /\ 100 * (my - c.start[2]) = (c.end[2] - c.start[2]) * c.label_pos
                /\ c.label_pos = 0 => (mx = c.start[1] /\ my = c.start[2])
                /\ c.label_pos = 100 => (mx = c.end[1] /\ my = c.end[2])
                /\ c.label_pos = 50 => (2 * mx = c.start[1] + c.end[1] /\ 2 * my = c.start[2] + c.end[2])

\* C5 witness: a labelled call with label_pos 0.5 between two different
\* points, whose label sits strictly between them.
C5_Witness ==
    \E k \in ArrowCalls :
        /\ calls[k].label_pos = 50
        /\ calls[k].start[1] # calls[k].end[1]
        /\ calls[k].start[2] # calls[k].end[2]
        /\ \E i \in ArrowLabelArtists :
              /\ i > calls[k].at /\ i <= calls[k].at + 2
              /\ children[i].x # calls[k].start[1] /\ children[i].x # calls[k].end[1]

PolygonCalls == {k \in 1..Len(calls) : calls[k].fn = "Polygon"}

IsPolygon(a) == a.kind = "Polygon"

ViolatesShape(a) ==
    \/ IsPolygon(a) /\ Len(a.verts) < 3
    \/ IsPanel(a) /\ (a.w <= 0 \/ a.h <= 0)
    \/ a.kind = "Circle" /\ a.r <= 0
    \/ a.alpha < 0 \/ a.alpha > 100

C8_FailedExportIsTerminal ==
    /\ [](/\ status = "error" =>
               /\ exitcode = 1 /\ ~writable
               /\ children = SceneArts(script)
               /\ Len(outputs) <= run - 1
               /\ file = (IF outputs = <<>> THEN <<>> ELSE <<outputs[Len(outputs)]>>)
               /\ ~ENABLED Savefig
          /\ status = "done" => (exitcode = 0 /\ writable)
          /\ (Saved /\ ~writable) => status = "error")
    /\ [][/\ (status = "building" /\ status' = "error") =>
               (children' = children /\ file' = file /\ outputs' = outputs /\ pc' = pc)
          /\ (status = "error" /\ status' # "error") =>
               (status' = "start" /\ run' = run + 1)]_vars

\* C8 witness: the second run failed to export; the file of the first run is
\* still on disk and the scene is complete.
C8_Witness ==
    /\ status = "error"
    /\ run = 2
    /\ exitcode = 1
    /\ Len(outputs) = 1
    /\ file = <<outputs[1]>>
    /\ Len(children) > 0

IsConnector(a) == a.kind = "Annotation"

RegularCalls == {k \in PolygonCalls : calls[k].sides > 0}

Abs(n) == IF n < 0 THEN 0 - n ELSE n

\* the squared distance of p from c
Dist2(p, c) == (p[1] - c[1]) * (p[1] - c[1]) + (p[2] - c[2]) * (p[2] - c[2])

\* p is at distance r from c, to within two hundredths of a unit
AtRadius(p, c, r) == (r - 2) * (r - 2) <= Dist2(p, c) /\ Dist2(p, c) <= (r + 2) * (r + 2)

\* q is p turned counter-clockwise about c by deg degrees, p and q at
\* distance r from c, to within the rounding of the coordinates
TurnedBy(p, q, c, r, deg) ==
    LET dot == (p[1] - c[1]) * (q[1] - c[1]) + (p[2] - c[2]) * (q[2] - c[2])
        cross == (p[1] - c[1]) * (q[2] - c[2]) - (p[2] - c[2]) * (q[1] - c[1])
        tol == 1000 * (4 * r + 4) + r * r
    IN  /\ Abs(1000 * dot - r * r * CosMilli(deg)) <= tol
        /\ Abs(1000 * cross - r * r * SinMilli(deg)) <= tol

\* C11: the vertex list computed for a regular polygon has exactly `sides`
\* vertices, the first at angle `rotation` from the centre and each next one
\* 360/sides degrees further counter-clockwise, all distinct and all at
\* distance `radius` from the centre (to within the rounding of the
\* coordinates); for six sides these are six points 60 degrees apart, the
\* closing duplicate of the first vertex not among them.
C11_RegularPolygonVertices ==
    \A k \in RegularCalls :
        LET c == calls[k]
            v == children[c.at + 1].verts
        IN  /\ IsPolygon(children[c.at + 1])
            /\ Len(v) = c.sides
            /\ TurnedBy(<<c.center[1] + c.radius, c.center[2]>>, v[1], c.center, c.radius, c.rotation)
            /\ \A i \in 1..Len(v) : AtRadius(v[i], c.center, c.radius)
            /\ \A i \in 1..(Len(v) - 1) :
                  TurnedBy(v[i], v[i + 1], c.center, c.radius, 360 \div c.sides)
            /\ \A i, j \in 1..Len(v) : i # j => v[i] # v[j]
            /\ c.sides = 6 =>
                  /\ Len(v) = 6
                  /\ v[6] # v[1]
                  /\ \A i \in 1..5 : TurnedBy(v[i], v[i + 1], c.center, c.radius, 60)

\* C11 witness: the vertices of a hexagon of radius 10 about (0, 0) with
\* rotation 0 have been computed, the first of them at (10, 0), and the
\* polygon is in the scene when it is saved.
C11_Witness ==
    /\ Saved
    /\ \E k \in RegularCalls :
          /\ calls[k].sides = 6 /\ calls[k].rotation = 0
          /\ calls[k].center = <<0, 0>> /\ calls[k].radius = U(10)
          /\ Len(children[calls[k].at + 1].verts) = 6
          /\ children[calls[k].at + 1].verts[1] = <<U(10), 0>>

\* ---------------------------------------------------------------- C12

\* s is a prefix of t
IsPrefix(s, t) == Len(s) <= Len(t) /\ SubSeq(t, 1, Len(s)) = s

\* C12: the scene of a run is append-only and is consumed once.  From the
\* configuration of the canvas on, the artist list before a step is a prefix
\* of the list after it, so no artist is deleted or changed once created;
\* nothing is painted while the scene is being built; plt.savefig paints the
\* scene once, all of it, and from then on the run adds no artist and paints
\* nothing again.
C12_SceneAppendOnly ==
    /\ [](status = "building" => painted = <<>>)
    /\ [](Saved => Len(painted) = Len(children))
    /\ [][ /\ status # "start" => IsPrefix(children, children')
           /\ Saved => (children' = children /\ painted' = painted)
           /\ painted' # painted =>
                 \/ status = "building" /\ status' \in {"done", "error"}
                      /\ children' = children /\ painted' = PaintOrder(children)
                 \/ status = "start" /\ status' = "building" /\ painted' = <<>>
         ]_vars

\* C12 witness: a second run has built its whole scene, after the first was
\* saved, and plt.savefig has painted it.
C12_Witness ==
    /\ run = 2
    /\ status = "done"
    /\ script \in Scripts
    /\ Len(children) = Len(SceneArts(script))
    /\ Len(painted) = Len(children)
    /\ Len(outputs) = 2

\* ---------------------------------------------------------------- C13

IsMarker(a) == a.kind = "Circle"

\* C13: every artist the two scripts put into a scene satisfies the
\* invariant of its kind: a panel has width and height above 0 and an
\* opacity between 0 and 1, a marker has a radius above 0 and an opacity
\* between 0 and 1 (the data-flow dots with opacity 0.4 + i*0.1 included), a
\* polygon has at least 3 vertices, a text label has a non-empty text, and
\* the label offset fraction of every draw_arrow call is between 0 and 1.
C13_EveryArtistWellFormed ==
    /\ \A i \in 1..Len(children) :
          LET a == children[i] IN
          /\ IsPanel(a) => (a.w > 0 /\ a.h > 0 /\ 0 <= a.alpha /\ a.alpha <= 100)
          /\ IsMarker(a) => (a.r > 0 /\ 0 <= a.alpha /\ a.alpha <= 100)
          /\ IsPolygon(a) => Len(a.verts) >= 3
          /\ IsLabel(a) => a.text # ""
    /\ \A k \in ArrowCalls : 0 <= calls[k].label_pos /\ calls[k].label_pos <= 100

\* C13 witness: create-diagram.py has added its five data-flow dots, the
\* last with opacity 0.8, after panels, polygons and text labels, and the
\* scene is saved.
C13_Witness ==
    /\ script = "simple"
    /\ Saved
    /\ Cardinality({i \in 1..Len(children) : IsMarker(children[i]) /\ children[i].line = 193}) = 5
    /\ \E i \in 1..Len(children) : children[i].line = 193 /\ children[i].alpha = 80
    /\ \E i \in 1..Len(children) : IsPanel(children[i])
    /\ \E i \in 1..Len(children) : IsPolygon(children[i])
    /\ \E i \in 1..Len(children) : IsLabel(children[i])

\* ---------------------------------------------------------------- C14

IsGrid(a) == a.phase = "grid"

\* C14 (as stated): the artists are added by kind: no grid line comes after
\* a panel and no panel comes after a text label or a marker.
C14_OrderedByKind ==
    /\ \A i \in 1..(Len(children) - 1) : IsGrid(children[i + 1]) => IsGrid(children[i])
    /\ \A j \in 1..Len(children) :
          IsPanel(children[j]) =>
              \A i \in 1..(j - 1) : ~(IsLabel(children[i]) \/ IsMarker(children[i]))

\* C14 (amended): the artists are added section by section, not by kind.
\* The grid lines come first: none is added after an artist of another
\* kind.  Then each layer is drawn in turn: the first artist of a layer is
\* its container panel, and every text label and marker of a layer comes
\* after the container panel of that layer.
C14_GridFirstThenSectionBySection ==
    /\ \A i \in 1..(Len(children) - 1) : IsGrid(children[i + 1]) => IsGrid(children[i])
    /\ \A i \in 1..Len(children) :
          LET a == children[i] IN
          a.phase = "layer" =>
              /\ (i = 1 \/ children[i - 1].phase # "layer" \/ children[i - 1].layer # a.layer)
                     => IsPanel(a)
              /\ (IsLabel(a) \/ IsMarker(a)) =>
                     \E j \in 1..(i - 1) : IsPanel(children[j]) /\ children[j].layer = a.layer

\* C14 witness: a script has saved a scene in which the grid lines precede
\* every panel and the container panel of a later layer was added after a
\* text label of an earlier layer.
C14_Witness ==
    /\ Saved
    /\ script \in Scripts
    /\ Len(children) = Len(SceneArts(script))
    /\ IsGrid(children[1])
    /\ LET labels == {i \in 1..Len(children) : IsLabel(children[i]) /\ children[i].layer = 1}
           panels == {j \in 1..Len(children) : IsPanel(children[j]) /\ children[j].layer = 2}
       IN  /\ labels # {} /\ panels # {}
           /\ \A i \in labels, j \in panels : i < j

\* ---------------------------------------------------------------- C15

\* the artists a recorded call appended to the Axes
ArtistsOf(c) == SubSeq(children, c.at + 1, c.at + c.added)

\* C15: a draw_arrow call with a style that is none of simple, thick, dashed
\* adds no connector and raises no error (the only failure of a run is the
\* write of plt.savefig), and still adds the label when one is given; a call
\* with one of the three preset names adds exactly one connector; and every
\* call adds exactly one label, carrying the label string, when the label is
\* a non-empty string, and none when it is None or empty.
C15_UnknownStyleDrawsOnlyTheLabel ==
    /\ status = "error" => ~writable
    /\ \A k \in ArrowCalls :
          LET c == calls[k]
              arts == ArtistsOf(c)
              connectors == {i \in 1..Len(arts) : IsConnector(arts[i])}
              labels == {i \in 1..Len(arts) : IsLabel(arts[i])}
              given == c.label # <<>> /\ c.label # <<"">>
          IN  /\ c.at + c.added <= Len(children)
              /\ c.style \notin {"simple", "thick", "dashed"} => connectors = {}
              /\ c.style \in {"simple", "thick", "dashed"} => Cardinality(connectors) = 1
              /\ given => (Cardinality(labels) = 1 /\ \A i \in labels : arts[i].text = c.label[1])
              /\ ~given => labels = {}
              /\ c.added = Cardinality(connectors) + Cardinality(labels)

\* C15 witness: draw_arrow was called with the style "dotted" and the label
\* "HTTP"; it added the label alone, and the figure was then saved without
\* error.
C15_Witness ==
    /\ status = "done"
    /\ \E k \in ArrowCalls :
          /\ calls[k].style = "dotted"
          /\ calls[k].label = <<"HTTP">>
          /\ calls[k].added = 1
          /\ IsLabel(children[calls[k].at + 1])
          /\ children[calls[k].at + 1].text = "HTTP"

====
